---- MODULE Spec2Model ----
(***************************************************************************)
(* rocket-basicauth: the HTTP Basic request guard of src/src/lib.rs.       *)
(*                                                                         *)
(* A Rust String / &str is modelled as the sequence of its UTF-8 bytes     *)
(* (0..255), so that len(), byte slicing (&key[..6]), char boundaries and  *)
(* String::truncate behave as they do in Rust.  A panic (a failed unwrap,  *)
(* a slice or truncate off a char boundary) is the result [tag |-> Panic]. *)
(***************************************************************************)
EXTENDS Integers, Sequences, FiniteSets

VARIABLES
    logFeature,   \* the build: cfg(feature = "log") on or off
    call,         \* the last entry point invoked: "none", "from_request", "new", "decode_to_creds"
    arg,          \* its argument: the Authorization values, a header value, or a base64 string
    result        \* what it returned (or Panic), with the trace! lines it emitted

vars == <<logFeature, call, arg, result>>

----------------------------------------------------------------------------
(* Bounds of the explored inputs *)

MaxPayloadLen == 3   \* arbitrary byte payloads that are base64-encoded
MaxRawLen == 3       \* raw (not necessarily base64) header tails
MaxCredLen == 2      \* usernames and passwords of the round trip
MaxHeaders == 2      \* Authorization values in one request

----------------------------------------------------------------------------
(* Byte strings *)

RECURSIVE SeqsUpTo(_, _)
SeqsUpTo(S, n) ==
    IF n = 0 THEN {<<>>}
    ELSE LET shorter == SeqsUpTo(S, n - 1)
         IN  shorter \cup {Append(s, x) : s \in {t \in shorter : Len(t) = n - 1}, x \in S}

RECURSIVE Rep(_, _)
Rep(b, n) == IF n = 0 THEN <<>> ELSE <<b>> \o Rep(b, n - 1)

IsCont(b) == b >= 128 /\ b <= 191

\* core::str::from_utf8: is the byte sequence well-formed UTF-8
RECURSIVE Utf8Valid(_)
Utf8Valid(b) ==
    IF Len(b) = 0 THEN TRUE
    ELSE LET b1 == b[1]
             n  == Len(b)
             Rest(k) == SubSeq(b, k + 1, n)
         IN  IF b1 < 128 THEN Utf8Valid(Rest(1))
             ELSE IF b1 >= 194 /\ b1 <= 223
                  THEN n >= 2 /\ IsCont(b[2]) /\ Utf8Valid(Rest(2))
             ELSE IF b1 >= 224 /\ b1 <= 239
                  THEN /\ n >= 3
                       /\ IsCont(b[2]) /\ IsCont(b[3])
                       /\ (b1 = 224 => b[2] >= 160)
                       /\ (b1 = 237 => b[2] <= 159)
                       /\ Utf8Valid(Rest(3))
             ELSE IF b1 >= 240 /\ b1 <= 244
                  THEN /\ n >= 4
                       /\ IsCont(b[2]) /\ IsCont(b[3]) /\ IsCont(b[4])
                       /\ (b1 = 240 => b[2] >= 144)
                       /\ (b1 = 244 => b[2] <= 143)
                       /\ Utf8Valid(Rest(4))
             ELSE FALSE

\* str::is_char_boundary(i), i a 0-based byte offset
IsCharBoundary(s, i) ==
    \/ i = 0
    \/ i = Len(s)
    \/ i < Len(s) /\ ~IsCont(s[i + 1])

----------------------------------------------------------------------------
(* base64, standard alphabet: A-Z a-z 0-9 + / and the pad = (61) *)

B64Char(v) ==
    IF v < 26 THEN 65 + v
    ELSE IF v < 52 THEN 97 + (v - 26)
    ELSE IF v < 62 THEN 48 + (v - 52)
    ELSE IF v = 62 THEN 43 ELSE 47

\* the value of a symbol, -1 for a byte outside the alphabet
B64Val(c) ==
    IF c >= 65 /\ c <= 90 THEN c - 65
    ELSE IF c >= 97 /\ c <= 122 THEN c - 97 + 26
    ELSE IF c >= 48 /\ c <= 57 THEN c - 48 + 52
    ELSE IF c = 43 THEN 62
    ELSE IF c = 47 THEN 63
    ELSE -1

\* base64(bytes), padded: the encoding side of the wire format
RECURSIVE Base64Encode(_)
Base64Encode(b) ==
    IF Len(b) = 0 THEN <<>>
    ELSE IF Len(b) = 1
         THEN <<B64Char(b[1] \div 4), B64Char((b[1] % 4) * 16), 61, 61>>
    ELSE IF Len(b) = 2
         THEN <<B64Char(b[1] \div 4), B64Char((b[1] % 4) * 16 + b[2] \div 16),
                B64Char((b[2] % 16) * 4), 61>>
    ELSE <<B64Char(b[1] \div 4), B64Char((b[1] % 4) * 16 + b[2] \div 16),
           B64Char((b[2] % 16) * 4 + b[3] \div 64), B64Char(b[3] % 64)>>
         \o Base64Encode(SubSeq(b, 4, Len(b)))

RECURSIVE PadCount(_)
PadCount(s) ==
    IF Len(s) > 0 /\ s[Len(s)] = 61 THEN 1 + PadCount(SubSeq(s, 1, Len(s) - 1)) ELSE 0

RECURSIVE DecodeSymbols(_)
DecodeSymbols(m) ==
    LET v(i) == B64Val(m[i])
    IN  IF Len(m) < 2 THEN <<>>
        ELSE IF Len(m) = 2 THEN <<v(1) * 4 + v(2) \div 16>>
        ELSE IF Len(m) = 3
             THEN <<v(1) * 4 + v(2) \div 16, (v(2) % 16) * 16 + v(3) \div 4>>
        ELSE <<v(1) * 4 + v(2) \div 16, (v(2) % 16) * 16 + v(3) \div 4,
               (v(3) % 4) * 64 + v(4)>>
             \o DecodeSymbols(SubSeq(m, 5, Len(m)))

\* base64::decode (STANDARD config): Ok(bytes) or Err.  Errors: a length of
\* 1 mod 4, a byte outside the alphabet, a pad that is not trailing or sits in
\* the first two places of its quad, non-zero trailing bits in the last symbol.
\* Missing padding is tolerated.
Base64Decode(s) ==
    LET np      == PadCount(s)
        body    == SubSeq(s, 1, Len(s) - np)
        m       == Len(body)
        last    == B64Val(body[m])
        Err     == [ok |-> FALSE, bytes |-> <<>>]
    IN  IF Len(s) % 4 = 1 THEN Err
        ELSE IF \E i \in 1..m : B64Val(body[i]) = -1 THEN Err
        ELSE IF \E i \in (m + 1)..Len(s) : (i - 1) % 4 < 2 THEN Err
        ELSE IF m % 4 = 2 /\ last % 16 # 0 THEN Err
        ELSE IF m % 4 = 3 /\ last % 4 # 0 THEN Err
        ELSE [ok |-> TRUE, bytes |-> DecodeSymbols(body)]

----------------------------------------------------------------------------
(* src/src/lib.rs *)

TRUNCATE_LEN == 64

\* format!("{}", n) of a usize
RECURSIVE Decimal(_)
Decimal(n) == IF n < 10 THEN <<48 + n>> ELSE Decimal(n \div 10) \o <<48 + (n % 10)>>

\* the literal ".. (truncated to " and the closing ")"
TruncatedNote ==
    <<46, 46, 32, 40, 116, 114, 117, 110, 99, 97, 116, 101, 100, 32, 116, 111, 32>>
    \o Decimal(TRUNCATE_LEN) \o <<41>>

\* the 0-based offset of the first ':' (58) at or after offset i, or -1
RECURSIVE FindColon(_, _)
FindColon(s, i) ==
    IF i >= Len(s) THEN -1
    ELSE IF s[i + 1] = 58 THEN i
    ELSE FindColon(s, i + 1)

\* the 0-based offset of the last ':' at or before offset i, or -1
RECURSIVE FindColonBack(_, _)
FindColonBack(s, i) ==
    IF i < 0 THEN -1
    ELSE IF s[i + 1] = 58 THEN i
    ELSE FindColonBack(s, i - 1)

\* faulty variant: str::rsplit_once(":"), the split at the last ':'
split_once_last(s) ==
    LET i == FindColonBack(s, Len(s) - 1)
    IN  IF i = -1 THEN [found |-> FALSE]
        ELSE [found |-> TRUE,
              before |-> SubSeq(s, 1, i),
              after  |-> SubSeq(s, i + 2, Len(s))]

\* faulty variant: split(":") keeping pieces 0 and 1, the text after a second ':' lost
split_once_second(s) ==
    LET i == FindColon(s, 0)
        j == FindColon(s, i + 1)
    IN  IF i = -1 THEN [found |-> FALSE]
        ELSE [found |-> TRUE,
              before |-> SubSeq(s, 1, i),
              after  |-> SubSeq(s, i + 2, IF j = -1 THEN Len(s) ELSE j)]

\* faulty variant: a text without ':' taken as a username with an empty password
split_once_or_empty(s) ==
    LET i == FindColon(s, 0)
    IN  IF i = -1 THEN [found |-> TRUE, before |-> s, after |-> <<>>]
        ELSE [found |-> TRUE,
              before |-> SubSeq(s, 1, i),
              after  |-> SubSeq(s, i + 2, Len(s))]

\* str::split_once(":"): the text before and after the first ':', or none
split_once(s) ==
    LET i == FindColon(s, 0)
    IN  IF i = -1 THEN [found |-> FALSE]
        ELSE [found |-> TRUE,
              before |-> SubSeq(s, 1, i),
              after  |-> SubSeq(s, i + 2, Len(s))]

None(tr) == [tag |-> "None", trace |-> tr]
Some(u, p, tr) == [tag |-> "Some", username |-> u, password |-> p, trace |-> tr]
Panic(tr) == [tag |-> "Panic", trace |-> tr]

\* The cfg(feature = "log") block of decode_to_creds (lines 87-102).  The block
\* names split_vec[0], the first piece of the colon split, which is the text
\* before the first ':' (username).  String::truncate(n) panics when n is not
\* on a char boundary.  The result is the identifier handed to trace!, or a
\* panic.
trace_id(username) ==
    IF Len(username) > TRUNCATE_LEN
    THEN IF IsCharBoundary(username, TRUNCATE_LEN)
         THEN [panic |-> FALSE,
               fmt_id |-> SubSeq(username, 1, TRUNCATE_LEN) \o TruncatedNote]
         ELSE [panic |-> TRUE]
    ELSE [panic |-> FALSE, fmt_id |-> username]

DecodedMsg(id) ==
    [text |-> "Decoded basic authentication credentials for user of id ", id |-> id]

RequestedMsg ==
    [text |-> "Basic authorization requested, starting decode process", id |-> <<>>]

\* decode_to_creds from the match on base64::decode's result onwards
creds_of_decoded(d, log) ==
    IF ~d.ok THEN None(<<>>)                               \* Err(_) => return None
    ELSE IF ~Utf8Valid(d.bytes) THEN Panic(<<>>)           \* String::from_utf8(..).unwrap()
    ELSE LET sp == split_once(d.bytes)
         IN  IF sp.found
             THEN IF log
                  THEN LET t == trace_id(sp.before)
                       IN  IF t.panic THEN Panic(<<>>)
                           ELSE Some(sp.before, sp.after, <<DecodedMsg(t.fmt_id)>>)
                  ELSE Some(sp.before, sp.after, <<>>)
             ELSE None(<<>>)

\* faulty variant: bytes outside the alphabet are skipped instead of failing the decode
decode_to_creds_lenient(base64_encoded, log) ==
    creds_of_decoded(
        Base64Decode(SelectSeq(base64_encoded, LAMBDA c : c = 61 \/ B64Val(c) # -1)),
        log)

\* fn decode_to_creds(base64_encoded) -> Option<(String, String)>
decode_to_creds(base64_encoded, log) ==
    creds_of_decoded(Base64Decode(base64_encoded), log)

BasicPrefix == <<66, 97, 115, 105, 99, 32>>   \* "Basic "

\* BasicAuth::new(auth_header) -> Option<Self>
BasicAuth_new(key, log) ==
    IF Len(key) < 7 THEN None(<<>>)
    ELSE IF ~IsCharBoundary(key, 6) THEN Panic(<<>>)       \* &key[..6]
    ELSE IF SubSeq(key, 1, 6) # BasicPrefix THEN None(<<>>)
    ELSE decode_to_creds(SubSeq(key, 7, Len(key)), log)    \* &key[6..], the ? operator

Forward(tr) == [tag |-> "Forward", trace |-> tr]
Success(auth, tr) == [tag |-> "Success", auth |-> auth, trace |-> tr]
Failure(status, error, tr) ==
    [tag |-> "Failure", status |-> status, error |-> error, trace |-> tr]

\* the single-header arm of from_request's match
from_single(key, log, tr) ==
    LET r == BasicAuth_new(key, log)
    IN  IF r.tag = "Some"
        THEN Success([username |-> r.username, password |-> r.password], tr \o r.trace)
        ELSE IF r.tag = "None"
        THEN Failure("BadRequest", "Invalid", tr \o r.trace)
        ELSE Panic(tr \o r.trace)

\* faulty variant: with several Authorization values the first one is used
from_request_first(keys, log) ==
    LET tr == IF log THEN <<RequestedMsg>> ELSE <<>>
    IN  IF Len(keys) = 0 THEN Forward(tr)
        ELSE from_single(keys[1], log, tr)

\* faulty variant: a missing header is an error (BasicAuthError::Missing of version 1)
from_request_missing(keys, log) ==
    LET tr == IF log THEN <<RequestedMsg>> ELSE <<>>
    IN  IF Len(keys) = 0 THEN Failure("BadRequest", "Missing", tr)
        ELSE IF Len(keys) = 1 THEN from_single(keys[1], log, tr)
        ELSE Failure("BadRequest", "BadCount", tr)

\* <BasicAuth as FromRequest>::from_request, keys the request's Authorization values
from_request(keys, log) ==
    LET tr == IF log THEN <<RequestedMsg>> ELSE <<>>
    IN  IF Len(keys) = 0 THEN Forward(tr)
        ELSE IF Len(keys) = 1
             THEN from_single(keys[1], log, tr)
        ELSE Failure("BadRequest", "BadCount", tr)

----------------------------------------------------------------------------
(* The inputs explored *)

\* payload bytes: NUL, ':', 'a', the two bytes of U+00E9 (0xC3 0xA9), 0xFF
PayloadBytes == {0, 58, 97, 195, 169, 255}

\* the payloads of the crate's own tests (lines 182-202):
\* "name:password", "name:pass:word", "emptypass:", ":", "nocolon"
NamePassword == <<110, 97, 109, 101, 58, 112, 97, 115, 115, 119, 111, 114, 100>>
NamePassWord == <<110, 97, 109, 101, 58, 112, 97, 115, 115, 58, 119, 111, 114, 100>>
EmptyPass == <<101, 109, 112, 116, 121, 112, 97, 115, 115, 58>>
OnlyColon == <<58>>
NoColon == <<110, 111, 99, 111, 108, 111, 110>>
TestPayloads == {NamePassword, NamePassWord, EmptyPass, OnlyColon, NoColon}

\* usernames and passwords of the round trip: UTF-8 text without NUL
CredTexts == {s \in SeqsUpTo({58, 97, 195, 169}, MaxCredLen) : Utf8Valid(s)}

\* usernames whose length is around TRUNCATE_LEN, ending in 1- and 2-byte chars
LongUsers ==
    {Rep(97, n) \o t : n \in (TRUNCATE_LEN - 2)..TRUNCATE_LEN,
                       t \in {<<>>, <<97>>, <<195, 169>>, <<195, 169, 97>>}}

Payloads ==
    SeqsUpTo(PayloadBytes, MaxPayloadLen)
    \cup TestPayloads
    \cup {u \o <<58>> \o p : u \in CredTexts, p \in CredTexts}
    \cup {u \o <<58>> \o p : u \in LongUsers, p \in {<<>>, <<97, 58>>}}

\* base64 text with its padding removed
Unpadded(s) == SubSeq(s, 1, Len(s) - PadCount(s))

\* header tails that need not be base64: 'O', 'g', '=', '*'
RawTails == SeqsUpTo({79, 103, 61, 42}, MaxRawLen)

Tails ==
    {Base64Encode(b) : b \in Payloads}
    \cup {Unpadded(Base64Encode(b)) : b \in SeqsUpTo(PayloadBytes, MaxPayloadLen)}
    \cup RawTails

\* what may stand in place of "Basic ": "basic ", "Basic", "Basi", "",
\* "Bearer ", "Basic\u{e9}" (7 bytes), "Basi\u{e9}" (6 bytes), "Basi\u{e9} ",
\* "Basic" and a lone continuation byte (not UTF-8, filtered out below)
OtherPrefixes ==
    {<<98, 97, 115, 105, 99, 32>>,
     <<66, 97, 115, 105, 99>>,
     <<66, 97, 115, 105>>,
     <<>>,
     <<66, 101, 97, 114, 101, 114, 32>>,
     <<66, 97, 115, 105, 99, 195, 169>>,
     <<66, 97, 115, 105, 195, 169>>,
     <<66, 97, 115, 105, 195, 169, 32>>,
     <<66, 97, 115, 105, 99, 169>>}

\* header values are &str: valid UTF-8
Headers ==
    {BasicPrefix \o t : t \in Tails}
    \cup {h \in {p \o t : p \in OtherPrefixes,
                          t \in RawTails \cup {Base64Encode(b) : b \in TestPayloads}} :
            Utf8Valid(h)}

\* the values of a request with more than one Authorization header
ManyHeaders ==
    {BasicPrefix \o Base64Encode(OnlyColon),
     BasicPrefix \o Base64Encode(NamePassWord),
     BasicPrefix \o Base64Encode(NoColon),
     BasicPrefix \o Base64Encode(<<255>>),
     <<66, 97, 115, 105, 99, 195, 169>>,
     <<>>}

Requests ==
    {<<h>> : h \in Headers}
    \cup {r \in SeqsUpTo(ManyHeaders, MaxHeaders) : Len(r) # 1}

----------------------------------------------------------------------------
(* The state machine: the crate keeps no state between calls, so each call *)
(* starts from the idle state and its result is consumed before the next   *)

NoResult == [tag |-> "NoResult", trace |-> <<>>]

Init ==
    /\ logFeature = FALSE
    /\ call = "none"
    /\ arg = <<>>
    /\ result = NoResult

InitLog ==
    /\ logFeature = TRUE
    /\ call = "none"
    /\ arg = <<>>
    /\ result = NoResult

\* the host runs the request guard on a request
CallFromRequest ==
    \E keys \in Requests :
        /\ call = "none"
        /\ call' = "from_request"
        /\ arg' = keys
        /\ result' = from_request(keys, logFeature)
        /\ UNCHANGED logFeature

\* a caller builds a BasicAuth from a header value
CallNew ==
    \E h \in Headers :
        /\ call = "none"
        /\ call' = "new"
        /\ arg' = h
        /\ result' = BasicAuth_new(h, logFeature)
        /\ UNCHANGED logFeature

\* decode_to_creds on a base64 text (as the crate's tests call it)
CallDecodeToCreds ==
    \E t \in Tails :
        /\ call = "none"
        /\ call' = "decode_to_creds"
        /\ arg' = t
        /\ result' = decode_to_creds(t, logFeature)
        /\ UNCHANGED logFeature

\* the caller consumes the returned value (or the panic has unwound); nothing is kept
Consume ==
    /\ call # "none"
    /\ call' = "none"
    /\ arg' = <<>>
    /\ result' = NoResult
    /\ UNCHANGED logFeature

Next == CallFromRequest \/ CallNew \/ CallDecodeToCreds \/ Consume

Spec == Init /\ [][Next]_vars

SpecLog == InitLog /\ [][Next]_vars

----------------------------------------------------------------------------
(* Vocabulary of the properties, stated without the operators of the code *)

HasColon(s) == \E i \in 1..Len(s) : s[i] = 58

\* the (1-based) place of the first ':' of a text that has one
FirstColon(s) == CHOOSE i \in 1..Len(s) : s[i] = 58 /\ \A j \in 1..(i - 1) : s[j] # 58

\* the number of characters of a UTF-8 text: its non-continuation bytes
CharCount(s) == Cardinality({i \in 1..Len(s) : ~IsCont(s[i])})

StartsWithBasic(h) == Len(h) >= 6 /\ \A i \in 1..6 : h[i] = BasicPrefix[i]

AfterPrefix(h) == SubSeq(h, 7, Len(h))

\* a base64 text that decodes to UTF-8 text
DecodesToText(t) == Base64Decode(t).ok /\ Utf8Valid(Base64Decode(t).bytes)

DecodedText(t) == Base64Decode(t).bytes

\* a base64 text that decodes, but not to UTF-8
DecodesToNonUtf8(t) == Base64Decode(t).ok /\ ~Utf8Valid(Base64Decode(t).bytes)

IsInvalid(r) == r.tag = "Failure" /\ r.status = "BadRequest" /\ r.error = "Invalid"

\* "Basic " + base64(username + ":" + password)
BasicHeader(u, p) == BasicPrefix \o Base64Encode(u \o <<58>> \o p)

RoundTripTable ==
    {[header |-> BasicHeader(u, p), username |-> u, password |-> p] :
        u \in CredTexts \cup LongUsers, p \in CredTexts}

----------------------------------------------------------------------------
(* C1 *)

\* C1 (as stated): for every pair (username, password) of UTF-8 texts without NUL,
\* BasicAuth::new("Basic " + base64(username + ":" + password)) returns Some
\* credentials that are exactly that pair.
C1_RoundTripAnyPair ==
    call = "new" =>
        \A t \in RoundTripTable :
            arg = t.header =>
                /\ result.tag = "Some"
                /\ result.username = t.username
                /\ result.password = t.password

\* C1 (amended): the round trip holds for every such pair whose username
\* contains no colon; the password may contain colons.
C1_RoundTripColonFreeUser ==
    call = "new" =>
        \A t \in RoundTripTable :
            (arg = t.header /\ ~HasColon(t.username)) =>
                /\ result.tag = "Some"
                /\ result.username = t.username
                /\ result.password = t.password

C1_Witness ==
    /\ call = "new"
    /\ \E t \in RoundTripTable :
          /\ arg = t.header
          /\ t.username # <<>>
          /\ ~HasColon(t.username)
          /\ HasColon(t.password)
          /\ result.tag = "Some"
          /\ result.password = t.password

----------------------------------------------------------------------------
(* C2 *)

\* C2: a header "Basic " + b, b valid base64 whose bytes are not UTF-8, is a
\* controlled failure: BasicAuth::new returns None and from_request with that
\* single header returns Failure(BadRequest, Invalid); no panic.
C2_NonUtf8IsInvalid ==
    /\ (call = "new" /\ StartsWithBasic(arg) /\ DecodesToNonUtf8(AfterPrefix(arg)))
          => result.tag = "None"
    /\ (call = "from_request" /\ Len(arg) = 1 /\ StartsWithBasic(arg[1])
            /\ DecodesToNonUtf8(AfterPrefix(arg[1])))
          => IsInvalid(result)

----------------------------------------------------------------------------
(* C3 *)

\* C3: a header shorter than 7 characters, or not beginning with "Basic ",
\* makes BasicAuth::new return None, without faulting, whatever multi-byte
\* characters it holds.
C3_BadPrefixIsNone ==
    (call = "new" /\ (CharCount(arg) < 7 \/ ~StartsWithBasic(arg)))
        => result.tag = "None"

----------------------------------------------------------------------------
(* C4 *)

\* C4: for every decoded text with at least one colon, decode_to_creds returns
\* Some((u, p)), u the text before the first colon and p all the text after
\* it, further colons included; either side may be empty.
C4_FirstColonSplit ==
    (call = "decode_to_creds" /\ DecodesToText(arg) /\ HasColon(DecodedText(arg))) =>
        LET s == DecodedText(arg)
            i == FirstColon(s)
        IN  /\ result.tag = "Some"
            /\ result.username = SubSeq(s, 1, i - 1)
            /\ result.password = SubSeq(s, i + 1, Len(s))

C4_Witness ==
    /\ call = "decode_to_creds"
    /\ arg = Base64Encode(NamePassWord)
    /\ result.tag = "Some"
    /\ result.username = <<110, 97, 109, 101>>
    /\ result.password = <<112, 97, 115, 115, 58, 119, 111, 114, 100>>

----------------------------------------------------------------------------
(* C5 *)

\* C5: a validly encoded UTF-8 payload without a colon gives None from
\* decode_to_creds and BasicAuth::new, and Failure(BadRequest, Invalid) from
\* the guard; never credentials with an empty password.
C5_NoColonIsNone ==
    /\ (call = "decode_to_creds" /\ DecodesToText(arg) /\ ~HasColon(DecodedText(arg)))
          => result.tag = "None"
    /\ (call = "new" /\ StartsWithBasic(arg) /\ DecodesToText(AfterPrefix(arg))
            /\ ~HasColon(DecodedText(AfterPrefix(arg))))
          => result.tag = "None"
    /\ (call = "from_request" /\ Len(arg) = 1 /\ StartsWithBasic(arg[1])
            /\ DecodesToText(AfterPrefix(arg[1]))
            /\ ~HasColon(DecodedText(AfterPrefix(arg[1]))))
          => IsInvalid(result)

C5_Witness ==
    /\ call = "from_request"
    /\ arg = <<BasicPrefix \o Base64Encode(NoColon)>>
    /\ IsInvalid(result)

----------------------------------------------------------------------------
(* C6 *)

\* C6: a request with two or more Authorization values is rejected with
\* Failure(BadRequest, BadCount), whatever the values, even when each would
\* decode on its own.
C6_ManyHeadersBadCount ==
    (call = "from_request" /\ Len(arg) >= 2) =>
        /\ result.tag = "Failure"
        /\ result.status = "BadRequest"
        /\ result.error = "BadCount"

C6_Witness ==
    /\ call = "from_request"
    /\ Len(arg) >= 2
    /\ \A i \in 1..Len(arg) : BasicAuth_new(arg[i], logFeature).tag = "Some"
    /\ result.tag = "Failure"
    /\ result.error = "BadCount"

----------------------------------------------------------------------------
(* C7 *)

\* C7: a request with no Authorization value gives Forward, never Success
\* and never a Failure.
C7_NoHeaderForwards ==
    (call = "from_request" /\ Len(arg) = 0) => result.tag = "Forward"

C7_Witness ==
    /\ call = "from_request"
    /\ arg = <<>>
    /\ result.tag = "Forward"

----------------------------------------------------------------------------
(* C8 *)

\* C8: with exactly one Authorization value h, from_request returns Success(c)
\* exactly when BasicAuth::new(h) = Some(c), with c unchanged, and otherwise
\* returns Failure(BadRequest, Invalid).
C8_SingleHeaderDelegates ==
    (call = "from_request" /\ Len(arg) = 1) =>
        LET r == BasicAuth_new(arg[1], logFeature)
        IN  IF r.tag = "Some"
            THEN /\ result.tag = "Success"
                 /\ result.auth = [username |-> r.username, password |-> r.password]
            ELSE IsInvalid(result)

----------------------------------------------------------------------------
(* C9 *)

\* not base64 of the standard alphabet: a byte that is neither a symbol nor
\* '=', or bad padding: a '=' before a symbol, or a '=' in the first two
\* places of its quad (which covers three or more of them)
InvalidBase64(s) ==
    \/ \E i \in 1..Len(s) : s[i] # 61 /\ B64Val(s[i]) = -1
    \/ \E i \in 1..Len(s) : s[i] = 61 /\ \E j \in (i + 1)..Len(s) : s[j] # 61
    \/ \E i \in 1..Len(s) : s[i] = 61 /\ (i - 1) % 4 < 2

\* C9: a header "Basic " + s, s not valid base64 (invalid characters or bad
\* padding), makes BasicAuth::new return None: no credentials.
C9_InvalidBase64IsNone ==
    (call = "new" /\ StartsWithBasic(arg) /\ InvalidBase64(AfterPrefix(arg)))
        => result.tag = "None"

C9_Witness ==
    /\ call = "new"
    /\ StartsWithBasic(arg)
    /\ Len(arg) >= 7
    /\ \E i \in 7..Len(arg) : arg[i] = 42
    /\ result.tag = "None"

----------------------------------------------------------------------------
(* C10 *)

\* C10: with the log feature, a successful decode traces an identifier that
\* is the username when it is at most TRUNCATE_LEN long and else its first
\* TRUNCATE_LEN units (read here as: followed by the fixed note
\* ".. (truncated to 64)" and nothing else), holds nothing of the password,
\* and tracing never faults, whatever the username.
C10_TraceIdIsTruncatedUser ==
    (logFeature /\ call = "decode_to_creds" /\ DecodesToText(arg)
        /\ HasColon(DecodedText(arg))) =>
        LET s == DecodedText(arg)
            u == SubSeq(s, 1, FirstColon(s) - 1)
        IN  /\ result.tag = "Some"
            /\ Len(result.trace) = 1
            /\ result.trace[1].id =
                   IF Len(u) <= TRUNCATE_LEN THEN u
                   ELSE SubSeq(u, 1, TRUNCATE_LEN) \o TruncatedNote

====
